---- MODULE Spec2Model ----
(***************************************************************************)
(* Playback / queue / download coordination layer of the lecture player:   *)
(* the player store (current episode, queue, play history, saved           *)
(* positions), the playback hook's commands and engine-event listeners,    *)
(* and the download store, hook and service.                               *)
(*                                                                         *)
(* An episode is represented by its id (a number); a queue item by the id  *)
(* of its episode (the addedAt stamp is not modelled).                     *)
(***************************************************************************)
EXTENDS Integers, Sequences, FiniteSets, TLC

\* ------------------------------------------------------------------ bounds
NumEpisodes == 3        \* episode ids are 1..NumEpisodes
MaxQueueLen == 3        \* the queue is not grown beyond this length
NumHistoryEpisodes == 22 \* episode ids of the history-cap specification
NumPositionEpisodes == 2 \* episodes the commands of SpecPosition are given
NumDataEpisodes == 1    \* episodes and download ids SpecData's inputs are drawn from
TickMs == 250           \* the clock advances in steps of this many ms
NumFeeds == 3           \* feed ids are 1..NumFeeds

\* --------------------------------------------------------- program constants
MinSavePosition == 5000 \* savePosition: "if (position < 5000) return"
HistoryLimit == 20      \* ".slice(0, 20)" in setCurrentEpisode / playNext
PrevRestartMs == 3000   \* "if (positionNow > 3000)": previous restarts the track
ProgressUpdateInterval == 500 \* PROGRESS_UPDATE_INTERVAL of the download hook (ms)

None == 0               \* null / undefined episode
NoItem == -1            \* an undefined queue slot (left by an out-of-range splice)
Absent == -1            \* no entry in savedPositions for the id
NoPath == 0             \* no entry in downloads for the id
Never == -1             \* no progress callback applied yet

Episodes == 1..NumEpisodes
HistoryEpisodes == 1..NumHistoryEpisodes
AllEpisodes == 1..(IF NumHistoryEpisodes > NumEpisodes THEN NumHistoryEpisodes ELSE NumEpisodes)

\* Playback offsets (ms) the engine reports: just below and at the save
\* threshold, and on both sides of the previous-restarts boundary.
Positions == {0, MinSavePosition}
FinePositions == {0, MinSavePosition - 1, MinSavePosition}

\* ------------------------------------------------------------ feed catalog
\* The catalog holds episodes 1..NumEpisodes-1, all of show 1, in this order;
\* episode NumEpisodes belongs to show 2, which the catalog does not hold
\* (an episode kept in a playlist or download after its feed was dropped).
CatalogEpisodes == [i \in 1..(NumEpisodes - 1) |-> i]

ShowOf(e) == IF e < NumEpisodes THEN 1 ELSE 2

RECURSIVE FilterSeq(_, _)
\* Array.prototype.filter with a membership test
FilterSeq(seq, keep) ==
    IF seq = <<>> THEN <<>>
    ELSE IF Head(seq) \in keep THEN <<Head(seq)>> \o FilterSeq(Tail(seq), keep)
         ELSE FilterSeq(Tail(seq), keep)

getEpisodesByShowId(showId) ==
    FilterSeq(CatalogEpisodes, {e \in AllEpisodes : ShowOf(e) = showId})

\* Array.prototype.findIndex, 0-based, -1 when absent
findIndex(seq, e) ==
    IF \E i \in 1..Len(seq) : seq[i] = e
    THEN (CHOOSE i \in 1..Len(seq) : seq[i] = e /\ \A j \in 1..(i - 1) : seq[j] # e) - 1
    ELSE -1

\* Array.prototype.slice(from) / slice(0, n), 0-based
sliceFrom(seq, from) == SubSeq(seq, from + 1, Len(seq))
sliceTo(seq, n) == SubSeq(seq, 1, IF n < Len(seq) THEN n ELSE Len(seq))

SeqRange(seq) == {seq[i] : i \in 1..Len(seq)}

\* ------------------------------------------------------------------- state
VARIABLES
    currentEpisode,     \* player store: id of the current episode, or None
    queue,              \* player store: sequence of queue items
    playHistory,        \* player store: sequence of episode ids, most recent first
    position,           \* player store: position (ms)
    savedPositions,     \* player store: id -> saved position, or Absent
    isPlaying,          \* player store: isPlaying
    isLoading,          \* player store: isLoading
    isBuffering,        \* player store: isBuffering
    isPlayRequested,    \* player store: isPlayRequested
    timerEpisode,       \* episode captured by the armed auto-save interval, or None
    audioState,         \* the audio engine's state (AudioProState)
    engineTrack,        \* the episode whose track the engine has loaded, or None
    autoPlayNext,       \* settings store: autoPlayNext
    isEventListenerRegistered, \* useAudioPlayer's module-level flag
    hookListeners       \* number of listeners the playback hook has attached

storeVars == <<currentEpisode, queue, playHistory, position, savedPositions>>
engineVars == <<audioState, engineTrack, isPlaying, isLoading, isBuffering, isPlayRequested>>
hookVars == <<timerEpisode, autoPlayNext, isEventListenerRegistered, hookListeners>>
playerVars == <<storeVars, engineVars, hookVars>>

VARIABLES
    downloads,          \* download store: id -> local path, or NoPath
    activeDownloads,    \* download store: id -> status of the progress record, or "none"
    downloadQueue,      \* download store: sequence of pending ids
    isProcessingQueue,  \* useDownloads: the isProcessingQueue state
    serviceActive,      \* DownloadService.activeDownloads: ids with a resumable
    files,              \* ids with a file (whole or partial) at their local path
    task,               \* id -> where its startDownload call stands
    pumpAwaiting,       \* ids whose startDownload a processQueue call awaits
    cancelTask,         \* id -> where its cancelDownload call stands
    deleteAllTask,      \* where the deleteAllDownloads call stands
    sinceLastUpdate,    \* id -> Date.now() - (lastProgressUpdateRef.current[id] || 0),
                        \*       capped at ProgressUpdateInterval
    sinceApplied        \* id -> time since the last non-terminal callback of the
                        \*       pending startDownload(id) was applied, capped
                        \*       likewise, or Never

downloadStoreVars == <<downloads, activeDownloads, downloadQueue>>
downloadTaskVars == <<isProcessingQueue, serviceActive, files, task, pumpAwaiting, cancelTask, deleteAllTask>>
throttleVars == <<sinceLastUpdate, sinceApplied>>
downloadVars == <<downloadStoreVars, downloadTaskVars, throttleVars>>

VARIABLES
    feed,               \* feed store: shows and episodes (as the ids of the feeds they
                        \*   came from), feedConfigs, isLoading, isRefreshing, error,
                        \*   isOffline
    refresh             \* the refreshFeeds call in flight: where it stands, the
                        \*   hasCachedData it computed, whether the network failed it

feedVars == <<feed, refresh>>

vars == <<playerVars, downloadVars, feedVars>>

\* The player store's slice as one value: store actions map a slice to a slice,
\* so that a handler calling several of them is their composition.
Store ==
    [currentEpisode |-> currentEpisode, queue |-> queue, playHistory |-> playHistory,
     position |-> position, savedPositions |-> savedPositions]

Commit(s) ==
    /\ currentEpisode' = s.currentEpisode
    /\ queue' = s.queue
    /\ playHistory' = s.playHistory
    /\ position' = s.position
    /\ savedPositions' = s.savedPositions

\* ------------------------------------------------------ player store actions
\* savePosition without its threshold (a faulty variant, for comparison)
savePositionUnchecked(s, episodeId, pos) ==
    [s EXCEPT !.savedPositions[episodeId] = pos]

\* savePosition dropping the entry below its threshold (a variant, for comparison)
savePositionClearsBelow(s, episodeId, pos) ==
    [s EXCEPT !.savedPositions[episodeId] =
                  IF pos < MinSavePosition THEN Absent ELSE pos]

savePosition(s, episodeId, pos) ==
    IF pos < MinSavePosition THEN s
    ELSE [s EXCEPT !.savedPositions[episodeId] = pos]

getSavedPosition(s, episodeId) ==
    IF s.savedPositions[episodeId] = Absent THEN 0 ELSE s.savedPositions[episodeId]

clearSavedPosition(s, episodeId) ==
    [s EXCEPT !.savedPositions[episodeId] = Absent]

\* The history push without its slice (a faulty variant, for comparison)
pushHistoryUncapped(history, cur) ==
    IF cur = None THEN history
    ELSE <<cur>> \o FilterSeq(history, SeqRange(history) \ {cur})

\* [currentEpisode, ...playHistory.filter(e => e.id !== currentEpisode.id)].slice(0, 20)
pushHistory(history, cur) ==
    IF cur = None THEN history
    ELSE sliceTo(<<cur>> \o FilterSeq(history, SeqRange(history) \ {cur}), HistoryLimit)

setCurrentEpisode(s, episode) ==
    LET s1 == IF s.currentEpisode # None /\ s.position > 0
              THEN savePosition(s, s.currentEpisode, s.position) ELSE s
    IN [s1 EXCEPT !.currentEpisode = episode, !.position = 0,
                  !.playHistory = pushHistory(s.playHistory, s.currentEpisode)]

\* addToQueue without its two checks (a faulty variant, for comparison)
addToQueueAlways(s, episode) ==
    [s EXCEPT !.queue = Append(s.queue, episode)]

\* queue.some(item => item.episode.id === episode.id) returns at a match and
\* throws a TypeError at an undefined slot: either way the queue is left as is.
addToQueue(s, episode) ==
    IF episode \in SeqRange(s.queue) \/ NoItem \in SeqRange(s.queue) THEN s
    ELSE IF s.currentEpisode = episode THEN s
    ELSE [s EXCEPT !.queue = Append(s.queue, episode)]

setQueue(s, episodes) ==
    [s EXCEPT !.queue = FilterSeq(episodes, SeqRange(episodes) \ {s.currentEpisode})]

\* queue.filter(item => item.episode.id !== episodeId) throws at an undefined slot
removeFromQueue(s, episodeId) ==
    IF NoItem \in SeqRange(s.queue) THEN s
    ELSE [s EXCEPT !.queue = FilterSeq(s.queue, SeqRange(s.queue) \ {episodeId})]

clearQueue(s) == [s EXCEPT !.queue = <<>>]

\* playNext saving the position before it looks at the queue (a faulty variant,
\* for comparison)
playNextSavesFirst(s) ==
    LET s1 == IF s.currentEpisode # None /\ s.position > 0
              THEN savePosition(s, s.currentEpisode, s.position) ELSE s
    IN IF Len(s.queue) = 0 \/ Head(s.queue) = NoItem THEN s1
       ELSE [s1 EXCEPT !.currentEpisode = Head(s.queue), !.queue = Tail(s.queue),
                       !.playHistory = pushHistory(s.playHistory, s.currentEpisode),
                       !.position = 0]

\* playNext's state change; its return value is playNextResult. With an undefined
\* slot at the head, nextItem.episode throws after the position was saved.
playNext(s) ==
    IF Len(s.queue) = 0 THEN s
    ELSE LET s1 == IF s.currentEpisode # None /\ s.position > 0
                   THEN savePosition(s, s.currentEpisode, s.position) ELSE s
         IN IF Head(s.queue) = NoItem THEN s1
            ELSE [s1 EXCEPT !.currentEpisode = Head(s.queue), !.queue = Tail(s.queue),
                            !.playHistory = pushHistory(s.playHistory, s.currentEpisode),
                            !.position = 0]

\* None: returned null; NoItem: threw
playNextResult(s) == IF Len(s.queue) = 0 THEN None ELSE Head(s.queue)

\* playPrevious putting the current episode at the end of the queue (a faulty
\* variant, for comparison)
playPreviousAppends(s) ==
    IF Len(s.playHistory) = 0 THEN s
    ELSE [s EXCEPT !.currentEpisode = Head(s.playHistory),
                   !.playHistory = Tail(s.playHistory),
                   !.queue = IF s.currentEpisode # None
                             THEN Append(s.queue, s.currentEpisode) ELSE s.queue,
                   !.position = 0]

\* playPrevious's state change (history-based); its return value is playPreviousResult
playPrevious(s) ==
    IF Len(s.playHistory) = 0 THEN s
    ELSE LET s1 == IF s.currentEpisode # None /\ s.position > 0
                   THEN savePosition(s, s.currentEpisode, s.position) ELSE s
         IN [s1 EXCEPT !.currentEpisode = Head(s.playHistory),
                       !.playHistory = Tail(s.playHistory),
                       !.queue = IF s.currentEpisode # None
                                 THEN <<s.currentEpisode>> \o s.queue ELSE s.queue,
                       !.position = 0]

playPreviousResult(s) == IF Len(s.playHistory) = 0 THEN None ELSE Head(s.playHistory)

\* newQueue.splice(fromIndex, 1) then newQueue.splice(toIndex, 0, removed), for
\* indices >= 0: a start past the end is clamped to the length, and removing
\* nothing leaves removed undefined.
reorderQueue(s, fromIndex, toIndex) ==
    LET q == s.queue
        removed == IF fromIndex < Len(q) THEN q[fromIndex + 1] ELSE NoItem
        without == IF fromIndex < Len(q)
                   THEN SubSeq(q, 1, fromIndex) \o SubSeq(q, fromIndex + 2, Len(q))
                   ELSE q
        at == IF toIndex < Len(without) THEN toIndex ELSE Len(without)
    IN [s EXCEPT !.queue = SubSeq(without, 1, at) \o <<removed>>
                           \o SubSeq(without, at + 1, Len(without))]

\* ------------------------------------------------------------ audio engine
AudioStates == {"IDLE", "LOADING", "PLAYING", "PAUSED", "STOPPED", "ERROR"}

\* The engine moves to st; the hook's sync effect then writes the store:
\* setIsPlaying when it differs (setIsPlaying(true) also clears isPlayRequested),
\* setIsLoading and setIsBuffering when "loading" differs from isLoading.
\* loadingNow and requestedNow are isLoading and isPlayRequested as the command
\* that moved the engine left them.  The engine is LOADING after
\* audioService.play, which every caller gives the episode it has just made current.
handleStateChangeWith(st, loadingNow, requestedNow) ==
    /\ audioState' = st
    /\ engineTrack' = IF st = "LOADING" THEN currentEpisode' ELSE engineTrack
    /\ isPlaying' = (st = "PLAYING")
    /\ isLoading' = (st = "LOADING")
    /\ isBuffering' = IF (st = "LOADING") # loadingNow THEN (st = "LOADING") ELSE isBuffering
    /\ isPlayRequested' = IF st = "PLAYING" /\ ~isPlaying THEN FALSE ELSE requestedNow

handleStateChange(st) == handleStateChangeWith(st, isLoading, isPlayRequested)

\* The engine loads and plays a track after setIsPlayRequested(true)
playRequested == handleStateChangeWith("LOADING", isLoading, TRUE)

\* audioService.hasTrack()
hasTrack == audioState # "IDLE"

\* ------------------------------------------------- playback hook: commands
\* playEpisode's store calls: setCurrentEpisode, then setQueue with the rest of
\* the show when the episode is in the show's list and not its last.
playEpisodeStore(s, episode) ==
    LET s1 == setCurrentEpisode(s, episode)
        showEpisodes == getEpisodesByShowId(ShowOf(episode))
        currentIndex == findIndex(showEpisodes, episode)
    IN IF currentIndex >= 0 /\ currentIndex < Len(showEpisodes) - 1
       THEN setQueue(s1, sliceFrom(showEpisodes, currentIndex + 1))
       ELSE s1

\* skipToNext's store calls: save at the engine's position, then playNext
skipToNextStore(s, positionNow) ==
    LET s1 == IF s.currentEpisode # None /\ positionNow > 0
              THEN savePosition(s, s.currentEpisode, positionNow) ELSE s
    IN playNext(s1)

\* skipToPrevious navigating whatever the position (a faulty variant, for
\* comparison)
skipToPreviousNavigatesAnywhere(s, positionNow) ==
    /\ s.currentEpisode # None
    /\ findIndex(getEpisodesByShowId(ShowOf(s.currentEpisode)), s.currentEpisode) > 0

\* skipToPrevious (series-relative): TRUE when it navigates to the previous
\* episode of the show, FALSE when it only seeks to 0
skipToPreviousNavigates(s, positionNow) ==
    /\ positionNow <= PrevRestartMs
    /\ s.currentEpisode # None
    /\ findIndex(getEpisodesByShowId(ShowOf(s.currentEpisode)), s.currentEpisode) > 0

\* skipToPrevious rebuilding the queue without the outgoing episode (a faulty
\* variant, for comparison)
skipToPreviousDropsOutgoing(s, positionNow) ==
    IF ~skipToPreviousNavigates(s, positionNow) THEN s
    ELSE LET showEpisodes == getEpisodesByShowId(ShowOf(s.currentEpisode))
             currentIndex == findIndex(showEpisodes, s.currentEpisode)
             s1 == IF positionNow > 0
                   THEN savePosition(s, s.currentEpisode, positionNow) ELSE s
             s2 == setCurrentEpisode(s1, showEpisodes[currentIndex])
         IN setQueue(s2, sliceFrom(showEpisodes, currentIndex + 1))

skipToPreviousStore(s, positionNow) ==
    IF ~skipToPreviousNavigates(s, positionNow) THEN s
    ELSE LET showEpisodes == getEpisodesByShowId(ShowOf(s.currentEpisode))
             currentIndex == findIndex(showEpisodes, s.currentEpisode)
             prevEpisode == showEpisodes[currentIndex]
             s1 == IF positionNow > 0
                   THEN savePosition(s, s.currentEpisode, positionNow) ELSE s
             s2 == setCurrentEpisode(s1, prevEpisode)
         IN setQueue(s2, sliceFrom(showEpisodes, currentIndex))

\* The history-based skipToPrevious with the test turned round (a faulty
\* variant, for comparison)
skipToPreviousHistoryReversed(s, positionNow) ==
    IF positionNow < PrevRestartMs THEN s ELSE playPrevious(s)

\* skipToPrevious of the history-based revision of the hook
skipToPreviousHistoryStore(s, positionNow) ==
    IF positionNow > PrevRestartMs THEN s ELSE playPrevious(s)

\* ---------------------------------------------- engine events: the listeners
\* audioSetup.handleTrackEnded: save the final position, then playNext
handleTrackEnded(s) ==
    LET s1 == IF s.currentEpisode # None /\ s.position > 0
              THEN savePosition(s, s.currentEpisode, s.position) ELSE s
    IN playNext(s1)

\* audioSetup.handleRemoteNext: the same store calls
handleRemoteNext(s) == handleTrackEnded(s)

\* The hook listener's TRACK_ENDED branch
hookTrackEnded(s) ==
    IF autoPlayNext /\ Len(s.queue) > 0 THEN playNext(s) ELSE s

\* TRUE when the hook listener's TRACK_ENDED branch starts playback
hookTrackEndedPlays(s) ==
    autoPlayNext /\ Len(s.queue) > 0 /\ playNextResult(s) \in AllEpisodes

\* The hook listener's REMOTE_NEXT branch
hookRemoteNext(s) ==
    IF Len(s.queue) > 0
    THEN playNext(IF s.currentEpisode # None /\ s.position > 0
                  THEN savePosition(s, s.currentEpisode, s.position) ELSE s)
    ELSE s

hookRemoteNextPlays(s) == Len(s.queue) > 0 /\ playNextResult(s) \in AllEpisodes

\* The hook listener's REMOTE_PREV branch: playerState is read once, before the
\* store calls, so its position is the one saved explicitly.
hookRemotePrevNavigates(s, enginePosition) ==
    /\ enginePosition <= PrevRestartMs
    /\ s.currentEpisode # None
    /\ findIndex(getEpisodesByShowId(ShowOf(s.currentEpisode)), s.currentEpisode) > 0

hookRemotePrev(s, enginePosition) ==
    IF ~hookRemotePrevNavigates(s, enginePosition) THEN s
    ELSE LET showEpisodes == getEpisodesByShowId(ShowOf(s.currentEpisode))
             currentIndex == findIndex(showEpisodes, s.currentEpisode)
             prevEpisode == showEpisodes[currentIndex]
             s1 == IF s.position > 0
                   THEN savePosition(s, s.currentEpisode, s.position) ELSE s
             s2 == setCurrentEpisode(s1, prevEpisode)
         IN setQueue(s2, sliceFrom(showEpisodes, currentIndex))

\* All listeners of one event, in registration order: audioSetup's (attached at
\* the app's entry, before any component mounts), then each listener the hook
\* attached.
RECURSIVE ApplyHookListeners(_, _, _)
ApplyHookListeners(n, s, kind) ==
    IF n = 0 THEN s
    ELSE ApplyHookListeners(n - 1,
            IF kind = "TRACK_ENDED" THEN hookTrackEnded(s) ELSE hookRemoteNext(s), kind)

RECURSIVE HookListenersPlay(_, _, _)
HookListenersPlay(n, s, kind) ==
    IF n = 0 THEN FALSE
    ELSE \/ IF kind = "TRACK_ENDED" THEN hookTrackEndedPlays(s) ELSE hookRemoteNextPlays(s)
         \/ HookListenersPlay(n - 1,
                IF kind = "TRACK_ENDED" THEN hookTrackEnded(s) ELSE hookRemoteNext(s), kind)

TypeOK ==
    /\ currentEpisode \in AllEpisodes \cup {None}
    /\ queue \in Seq(AllEpisodes \cup {NoItem})
    /\ playHistory \in Seq(AllEpisodes)
    /\ position \in Nat
    /\ savedPositions \in [AllEpisodes -> Nat \cup {Absent}]
    /\ isPlaying \in BOOLEAN
    /\ engineTrack \in AllEpisodes \cup {None}
    /\ isLoading \in BOOLEAN
    /\ isBuffering \in BOOLEAN
    /\ isPlayRequested \in BOOLEAN
    /\ timerEpisode \in AllEpisodes \cup {None}
    /\ audioState \in AudioStates
    /\ autoPlayNext \in BOOLEAN
    /\ isEventListenerRegistered \in BOOLEAN
    /\ hookListeners \in Nat

\* State after construction: the stores' initial values, setupAudio() run at the
\* app's entry, no component mounted yet.
InitPlayer ==
    /\ currentEpisode = None
    /\ queue = <<>>
    /\ playHistory = <<>>
    /\ position = 0
    /\ savedPositions = [e \in AllEpisodes |-> Absent]
    /\ isPlaying = FALSE
    /\ engineTrack = None
    /\ isLoading = FALSE
    /\ isBuffering = FALSE
    /\ isPlayRequested = FALSE
    /\ timerEpisode = None
    /\ audioState = "IDLE"
    /\ autoPlayNext = TRUE
    /\ isEventListenerRegistered = FALSE
    /\ hookListeners = 0

\* ------------------------------------------------- actions: the player store
SetCurrentEpisode(e) ==
    /\ Commit(setCurrentEpisode(Store, e))
    /\ UNCHANGED <<engineVars, hookVars>>
    /\ UNCHANGED <<downloadVars, feedVars>>

AddToQueue(e) ==
    /\ Len(queue) < MaxQueueLen
    /\ Commit(addToQueue(Store, e))
    /\ UNCHANGED <<engineVars, hookVars>>
    /\ UNCHANGED <<downloadVars, feedVars>>

SetQueue(episodes) ==
    /\ Commit(setQueue(Store, episodes))
    /\ UNCHANGED <<engineVars, hookVars>>
    /\ UNCHANGED <<downloadVars, feedVars>>

RemoveFromQueue(e) ==
    /\ Commit(removeFromQueue(Store, e))
    /\ UNCHANGED <<engineVars, hookVars>>
    /\ UNCHANGED <<downloadVars, feedVars>>

ClearQueue ==
    /\ Commit(clearQueue(Store))
    /\ UNCHANGED <<engineVars, hookVars>>
    /\ UNCHANGED <<downloadVars, feedVars>>

PlayNext ==
    /\ Commit(playNext(Store))
    /\ UNCHANGED <<engineVars, hookVars>>
    /\ UNCHANGED <<downloadVars, feedVars>>

PlayPrevious ==
    /\ Len(queue) < MaxQueueLen
    /\ Commit(playPrevious(Store))
    /\ UNCHANGED <<engineVars, hookVars>>
    /\ UNCHANGED <<downloadVars, feedVars>>

ReorderQueue(fromIndex, toIndex) ==
    /\ Commit(reorderQueue(Store, fromIndex, toIndex))
    /\ UNCHANGED <<engineVars, hookVars>>
    /\ UNCHANGED <<downloadVars, feedVars>>

ClearSavedPosition(e) ==
    /\ Commit(clearSavedPosition(Store, e))
    /\ UNCHANGED <<engineVars, hookVars>>
    /\ UNCHANGED <<downloadVars, feedVars>>

\* ------------------------------------------------ actions: the playback hook
\* A component using the hook mounts: the registration effect attaches the
\* listener unless the module-level flag says one is attached.
MountHook ==
    /\ IF isEventListenerRegistered
       THEN UNCHANGED <<isEventListenerRegistered, hookListeners>>
       ELSE /\ isEventListenerRegistered' = TRUE
            /\ hookListeners' = hookListeners + 1
    /\ UNCHANGED <<storeVars, engineVars, timerEpisode, autoPlayNext>>
    /\ UNCHANGED <<downloadVars, feedVars>>

\* A component using the hook has mounted since the app started: the hook's
\* commands and effects exist
HookMounted == isEventListenerRegistered

\* The auto-save effect runs after a render in which currentEpisode or isPlaying
\* changed: the old interval is cleared, a new one armed while playing.
AutoSaveEffect ==
    /\ HookMounted
    /\ timerEpisode' = IF currentEpisode # None /\ isPlaying THEN currentEpisode ELSE None
    /\ UNCHANGED <<storeVars, engineVars, autoPlayNext, isEventListenerRegistered, hookListeners>>
    /\ UNCHANGED <<downloadVars, feedVars>>

\* The interval fires: the store's position is saved under the captured episode.
AutoSaveTick ==
    /\ HookMounted
    /\ timerEpisode # None
    /\ Commit(IF position > 0 THEN savePosition(Store, timerEpisode, position) ELSE Store)
    /\ UNCHANGED <<engineVars, hookVars>>
    /\ UNCHANGED <<downloadVars, feedVars>>

PlayEpisode(e) ==
    /\ HookMounted
    /\ Commit(playEpisodeStore(Store, e))
    /\ handleStateChangeWith("LOADING", TRUE, TRUE)
    /\ UNCHANGED hookVars
    /\ UNCHANGED <<downloadVars, feedVars>>

\* How the promise of playEpisode settles: the catch block logs the error and
\* returns, so the call is fulfilled whether or not audioService.play threw
playEpisodeOutcome(playThrows) == "fulfilled"

\* playEpisode when audioService.play throws: the store calls before it have
\* been made, the engine has not moved, the catch block clears the two flags
PlayEpisodeFails(e) ==
    /\ HookMounted
    /\ Commit(playEpisodeStore(Store, e))
    /\ isLoading' = FALSE
    /\ isPlayRequested' = FALSE
    /\ UNCHANGED <<audioState, engineTrack, isPlaying, isBuffering>>
    /\ UNCHANGED hookVars
    /\ UNCHANGED <<downloadVars, feedVars>>

\* togglePlayPause: pause and save / resume the loaded track / reload
TogglePlayPause(positionNow) ==
    /\ HookMounted
    /\ IF currentEpisode = None
       THEN UNCHANGED <<storeVars, engineVars>>
       ELSE IF audioState = "PLAYING"
       THEN /\ Commit(savePosition(Store, currentEpisode, positionNow))
            /\ handleStateChange("PAUSED")
       ELSE IF hasTrack
       THEN /\ Commit(Store)
            /\ handleStateChangeWith("PLAYING", isLoading, TRUE)
       ELSE /\ Commit(playEpisodeStore(Store, currentEpisode))
            /\ handleStateChangeWith("LOADING", TRUE, TRUE)
    /\ UNCHANGED hookVars
    /\ UNCHANGED <<downloadVars, feedVars>>

Stop(positionNow) ==
    /\ HookMounted
    /\ Commit(IF currentEpisode # None
              THEN savePosition(Store, currentEpisode, positionNow) ELSE Store)
    /\ handleStateChange("STOPPED")
    /\ UNCHANGED hookVars
    /\ UNCHANGED <<downloadVars, feedVars>>

SkipToNext(positionNow) ==
    /\ HookMounted
    /\ Commit(skipToNextStore(Store, positionNow))
    /\ IF playNextResult(Store) \in AllEpisodes
       THEN playRequested ELSE UNCHANGED engineVars
    /\ UNCHANGED hookVars
    /\ UNCHANGED <<downloadVars, feedVars>>

SkipToPrevious(positionNow) ==
    /\ HookMounted
    /\ Commit(skipToPreviousStore(Store, positionNow))
    /\ IF skipToPreviousNavigates(Store, positionNow)
       THEN playRequested ELSE UNCHANGED engineVars
    /\ UNCHANGED hookVars
    /\ UNCHANGED <<downloadVars, feedVars>>

SkipToPreviousHistory(positionNow) ==
    /\ HookMounted
    /\ Len(queue) < MaxQueueLen
    /\ Commit(skipToPreviousHistoryStore(Store, positionNow))
    /\ IF positionNow <= PrevRestartMs /\ playPreviousResult(Store) # None
       THEN playRequested ELSE UNCHANGED engineVars
    /\ UNCHANGED hookVars
    /\ UNCHANGED <<downloadVars, feedVars>>

SetAutoPlayNext(value) ==
    /\ autoPlayNext' = value
    /\ UNCHANGED <<storeVars, engineVars, timerEpisode, isEventListenerRegistered, hookListeners>>
    /\ UNCHANGED <<downloadVars, feedVars>>

\* -------------------------------------------------- actions: engine events
\* PROGRESS: handleProgress stores the reported position
ProgressEvent(p) ==
    /\ audioState = "PLAYING"
    /\ position' = p
    /\ UNCHANGED <<currentEpisode, queue, playHistory, savedPositions, engineVars, hookVars>>
    /\ UNCHANGED <<downloadVars, feedVars>>

\* The engine finishes loading and plays
EngineStartsPlaying ==
    /\ audioState = "LOADING"
    /\ handleStateChange("PLAYING")
    /\ UNCHANGED <<storeVars, hookVars>>
    /\ UNCHANGED <<downloadVars, feedVars>>

\* The engine fails: PLAYBACK_ERROR and the ERROR state
EngineFails ==
    /\ audioState \in {"LOADING", "PLAYING"}
    /\ handleStateChange("ERROR")
    /\ UNCHANGED <<storeVars, hookVars>>
    /\ UNCHANGED <<downloadVars, feedVars>>

\* TRACK_ENDED: the engine stops at the end of the track and every listener runs
TrackEndedEvent ==
    /\ audioState = "PLAYING"
    /\ LET s1 == handleTrackEnded(Store)
       IN /\ Commit(ApplyHookListeners(hookListeners, s1, "TRACK_ENDED"))
          /\ IF HookListenersPlay(hookListeners, s1, "TRACK_ENDED")
             THEN playRequested ELSE handleStateChange("STOPPED")
    /\ UNCHANGED hookVars
    /\ UNCHANGED <<downloadVars, feedVars>>

\* REMOTE_NEXT from the lock screen or a headset
RemoteNextEvent ==
    /\ hasTrack
    /\ LET s1 == handleRemoteNext(Store)
       IN /\ Commit(ApplyHookListeners(hookListeners, s1, "REMOTE_NEXT"))
          /\ IF HookListenersPlay(hookListeners, s1, "REMOTE_NEXT")
             THEN playRequested ELSE UNCHANGED engineVars
    /\ UNCHANGED hookVars
    /\ UNCHANGED <<downloadVars, feedVars>>

\* REMOTE_PREV: audioSetup.handleRemotePrev only seeks; the hook listener may navigate
RemotePrevEvent(enginePosition) ==
    /\ hasTrack
    /\ Len(queue) < MaxQueueLen
    /\ IF hookListeners > 0
       THEN /\ Commit(hookRemotePrev(Store, enginePosition))
            /\ IF hookRemotePrevNavigates(Store, enginePosition)
               THEN playRequested ELSE UNCHANGED engineVars
       ELSE /\ Commit(Store)
            /\ UNCHANGED engineVars
    /\ UNCHANGED hookVars
    /\ UNCHANGED <<downloadVars, feedVars>>

\* Rehydration from a partialize that leaves savedPositions out (a faulty
\* variant, for comparison)
RehydratePlayerWithoutPositions ==
    /\ UNCHANGED <<currentEpisode, position, queue, autoPlayNext>>
    /\ savedPositions' = [e \in AllEpisodes |-> Absent]
    /\ playHistory' = <<>>
    /\ isPlaying' = FALSE
    /\ isLoading' = FALSE
    /\ isBuffering' = FALSE
    /\ isPlayRequested' = FALSE
    /\ audioState' = "IDLE"
    /\ engineTrack' = None
    /\ timerEpisode' = None
    /\ isEventListenerRegistered' = FALSE
    /\ hookListeners' = 0

\* Rehydration that brings the transient flags back as they were stored (a
\* faulty variant, for comparison)
RehydratePlayerKeepsFlags ==
    /\ UNCHANGED <<currentEpisode, position, queue, savedPositions, autoPlayNext>>
    /\ UNCHANGED <<isPlaying, isLoading, isBuffering, isPlayRequested>>
    /\ playHistory' = <<>>
    /\ audioState' = "IDLE"
    /\ engineTrack' = None
    /\ timerEpisode' = None
    /\ isEventListenerRegistered' = FALSE
    /\ hookListeners' = 0

\* ------------------------------------------------------ restart: rehydration
\* partialize keeps currentEpisode, position, queue and savedPositions (and
\* duration, playbackSpeed); everything else starts from its initial value.
RehydratePlayer ==
    /\ UNCHANGED <<currentEpisode, position, queue, savedPositions, autoPlayNext>>
    /\ playHistory' = <<>>
    /\ isPlaying' = FALSE
    /\ isLoading' = FALSE
    /\ isBuffering' = FALSE
    /\ isPlayRequested' = FALSE
    /\ audioState' = "IDLE"
    /\ engineTrack' = None
    /\ timerEpisode' = None
    /\ isEventListenerRegistered' = FALSE
    /\ hookListeners' = 0

\* ------------------------------------------------------ the download store
DownloadStatuses == {"downloading", "completed", "failed", "cancelled"}

\* The download store's slice as one value
DownloadStore ==
    [downloads |-> downloads, activeDownloads |-> activeDownloads,
     downloadQueue |-> downloadQueue]

CommitDownloads(d) ==
    /\ downloads' = d.downloads
    /\ activeDownloads' = d.activeDownloads
    /\ downloadQueue' = d.downloadQueue

\* DownloadService.getLocalPath: one path per episode, named here by the id
LocalPathOf(id) == id

addDownload(d, id, localPath) == [d EXCEPT !.downloads[id] = localPath]

removeDownload(d, id) == [d EXCEPT !.downloads[id] = NoPath]

isDownloaded(d, id) == d.downloads[id] # NoPath

getLocalPath(d, id) == d.downloads[id]

setDownloadProgress(d, id, status) == [d EXCEPT !.activeDownloads[id] = status]

\* removeDownloadProgress that removes nothing (a faulty variant, for comparison)
removeDownloadProgressKeeps(d, id) == d

removeDownloadProgress(d, id) == [d EXCEPT !.activeDownloads[id] = "none"]

\* addToDownloadQueue without its check (a faulty variant, for comparison)
addToDownloadQueueAlways(d, id) ==
    [d EXCEPT !.downloadQueue = Append(d.downloadQueue, id)]

addToDownloadQueue(d, id) ==
    IF d.downloads[id] # NoPath \/ id \in SeqRange(d.downloadQueue) THEN d
    ELSE [d EXCEPT !.downloadQueue = Append(d.downloadQueue, id)]

removeFromDownloadQueue(d, id) ==
    [d EXCEPT !.downloadQueue = FilterSeq(d.downloadQueue, SeqRange(d.downloadQueue) \ {id})]

getNextInQueue(d) == IF d.downloadQueue = <<>> THEN None ELSE Head(d.downloadQueue)

clearAllDownloads(d) ==
    [downloads |-> [id \in Episodes |-> NoPath],
     activeDownloads |-> [id \in Episodes |-> "none"],
     downloadQueue |-> <<>>]

\* feed store: episodes.find(e => e.id === id)
getEpisodeById(id) == IF id \in SeqRange(CatalogEpisodes) THEN id ELSE None

\* ------------------------------------------------------- the download hook
\* queueDownload is memoized on [addToDownloadQueue] alone, so it keeps the
\* processQueue of the first render, and that one reads the isProcessingQueue
\* of the first render: useState(false).
capturedIsProcessingQueue == FALSE

\* The synchronous part of processQueue, up to the await of startDownload (or
\* through it, when startDownload returns at once and the finally block calls
\* processQueue again).  The result is the store, the id whose transfer was
\* started (or None) and the isProcessingQueue state left behind.
RECURSIVE processQueue(_, _)
processQueue(d, processing) ==
    IF capturedIsProcessingQueue THEN [store |-> d, started |-> None, processing |-> processing]
    ELSE LET nextEpisodeId == getNextInQueue(d) IN
         IF nextEpisodeId = None THEN [store |-> d, started |-> None, processing |-> processing]
         ELSE IF getEpisodeById(nextEpisodeId) = None
         THEN processQueue(removeFromDownloadQueue(d, nextEpisodeId), processing)
         ELSE LET d1 == removeFromDownloadQueue(d, nextEpisodeId) IN
              IF isDownloaded(d1, nextEpisodeId)
              THEN processQueue(d1, FALSE)
              ELSE [store |-> setDownloadProgress(d1, nextEpisodeId, "downloading"),
                    started |-> nextEpisodeId, processing |-> TRUE]

\* ------------------------------------------------- the progress throttle
\* A callback let through whatever its status (a faulty variant, for comparison)
progressCallbackAppliesAlways(status, sinceLast) == TRUE

\* A callback let through by the interval alone (a faulty variant, for comparison)
progressCallbackAppliesByInterval(status, sinceLast) ==
    sinceLast >= ProgressUpdateInterval

\* progress.status === 'completed' || now - lastUpdate >= PROGRESS_UPDATE_INTERVAL
progressCallbackApplies(status, sinceLast) ==
    status = "completed" \/ sinceLast >= ProgressUpdateInterval

\* The store after startDownload's progress callback ran with this status
progressCallback(d, id, status, sinceLast) ==
    IF progressCallbackApplies(status, sinceLast)
    THEN setDownloadProgress(d, id, status) ELSE d

\* lastProgressUpdateRef.current[id] = 0, and delete lastProgressUpdateRef.current[id]:
\* either way the next callback reads a last update of 0
clearLastUpdate(f, ids) ==
    [id \in Episodes |-> IF id \in ids THEN ProgressUpdateInterval ELSE f[id]]

\* A startDownload call begins or ends for these ids: none of its callbacks
\* has been applied
clearApplied(f, ids) ==
    [id \in Episodes |-> IF id \in ids THEN Never ELSE f[id]]

\* dt ms later
elapse(x, dt) ==
    IF x = Never THEN Never
    ELSE IF x + dt >= ProgressUpdateInterval THEN ProgressUpdateInterval ELSE x + dt

\* A settling without the finally block's processQueue() (a faulty variant,
\* for comparison)
\* startDownload with a catch block that does not rethrow (a faulty variant,
\* for comparison)
startDownloadSwallows(transferThrows) == "fulfilled"

\* How the promise of startDownload settles: its catch block rethrows the error
startDownloadOutcome(transferThrows) ==
    IF transferThrows THEN "rejected" ELSE "fulfilled"

SettleWithoutNext(d, id, nextTask) ==
    /\ CommitDownloads(d)
    /\ task' = [task EXCEPT ![id] = nextTask]
    /\ isProcessingQueue' = FALSE
    /\ pumpAwaiting' = pumpAwaiting \ {id}
    /\ sinceLastUpdate' = clearLastUpdate(sinceLastUpdate, {id})
    /\ sinceApplied' = clearApplied(sinceApplied, {id})

\* startDownload's promise for id settles; when a processQueue call awaits it,
\* its finally block runs: setIsProcessingQueue(false); processQueue().
SettleStartDownload(d, id, nextTask) ==
    IF id \in pumpAwaiting
    THEN LET r == processQueue(d, FALSE) IN
         /\ CommitDownloads(r.store)
         /\ isProcessingQueue' = r.processing
         /\ pumpAwaiting' = (pumpAwaiting \ {id}) \cup (IF r.started = None THEN {} ELSE {r.started})
         /\ task' = IF r.started = None THEN [task EXCEPT ![id] = nextTask]
                    ELSE [task EXCEPT ![id] = nextTask, ![r.started] = "preparing"]
         /\ sinceLastUpdate' = clearLastUpdate(sinceLastUpdate, {id, r.started})
         /\ sinceApplied' = clearApplied(sinceApplied, {id, r.started})
    ELSE /\ CommitDownloads(d)
         /\ task' = [task EXCEPT ![id] = nextTask]
         /\ sinceLastUpdate' = clearLastUpdate(sinceLastUpdate, {id})
         /\ sinceApplied' = clearApplied(sinceApplied, {id})
         /\ UNCHANGED <<isProcessingQueue, pumpAwaiting>>

TaskStates == {"idle", "preparing", "transferring", "paused", "adding"}

\* No handler is between two of its synchronous store writes
Quiescent == \A id \in Episodes : task[id] # "adding"

DownloadTypeOK ==
    /\ downloads \in [Episodes -> {NoPath} \cup {LocalPathOf(id) : id \in Episodes}]
    /\ activeDownloads \in [Episodes -> DownloadStatuses \cup {"none"}]
    /\ downloadQueue \in Seq(Episodes)
    /\ isProcessingQueue \in BOOLEAN
    /\ serviceActive \subseteq Episodes
    /\ files \subseteq Episodes
    /\ task \in [Episodes -> TaskStates]
    /\ pumpAwaiting \subseteq Episodes
    /\ cancelTask \in [Episodes -> {"idle", "pausing", "settled"}]
    /\ deleteAllTask \in {"idle", "cancelling", "clearing"}
    /\ sinceLastUpdate \in [Episodes -> 0..ProgressUpdateInterval]
    /\ sinceApplied \in [Episodes -> {Never} \cup 0..ProgressUpdateInterval]

InitDownloads ==
    /\ downloads = [id \in Episodes |-> NoPath]
    /\ activeDownloads = [id \in Episodes |-> "none"]
    /\ downloadQueue = <<>>
    /\ isProcessingQueue = FALSE
    /\ serviceActive = {}
    /\ files = {}
    /\ task = [id \in Episodes |-> "idle"]
    /\ pumpAwaiting = {}
    /\ cancelTask = [id \in Episodes |-> "idle"]
    /\ deleteAllTask = "idle"
    /\ sinceLastUpdate = [id \in Episodes |-> ProgressUpdateInterval]
    /\ sinceApplied = [id \in Episodes |-> Never]

\* ------------------------------------------------ actions: the download hook
\* startDownload called from a screen's Download button, up to its first await
StartDownload(id) ==
    /\ Quiescent
    /\ getEpisodeById(id) # None
    /\ task[id] = "idle" /\ cancelTask[id] # "pausing"
    /\ IF isDownloaded(DownloadStore, id)
       THEN UNCHANGED <<downloadStoreVars, task, cancelTask, throttleVars>>
       ELSE /\ CommitDownloads(setDownloadProgress(DownloadStore, id, "downloading"))
            /\ task' = [task EXCEPT ![id] = "preparing"]
            /\ cancelTask' = [cancelTask EXCEPT ![id] = "idle"]
            /\ sinceLastUpdate' = clearLastUpdate(sinceLastUpdate, {id})
            /\ sinceApplied' = clearApplied(sinceApplied, {id})
    /\ UNCHANGED <<isProcessingQueue, serviceActive, files, pumpAwaiting, deleteAllTask>>
    /\ UNCHANGED <<playerVars, feedVars>>

\* queueDownload: addToDownloadQueue, then processQueue up to its await
QueueDownload(id) ==
    /\ Quiescent
    /\ task[id] = "idle" /\ cancelTask[id] # "pausing"
    /\ LET r == processQueue(addToDownloadQueue(DownloadStore, id), isProcessingQueue) IN
       /\ CommitDownloads(r.store)
       /\ isProcessingQueue' = r.processing
       /\ pumpAwaiting' = pumpAwaiting \cup (IF r.started = None THEN {} ELSE {r.started})
       /\ task' = IF r.started = None THEN task ELSE [task EXCEPT ![r.started] = "preparing"]
       /\ sinceLastUpdate' = clearLastUpdate(sinceLastUpdate, {r.started})
       /\ sinceApplied' = clearApplied(sinceApplied, {r.started})
    /\ cancelTask' = [cancelTask EXCEPT ![id] = "idle"]
    /\ UNCHANGED <<serviceActive, files, deleteAllTask>>
    /\ UNCHANGED <<playerVars, feedVars>>

\* downloadEpisode after ensureDirectoryExists and getInfoAsync: a file already
\* at the path is returned as the result, otherwise the transfer starts
BeginTransfer(id) ==
    /\ Quiescent
    /\ task[id] = "preparing"
    /\ IF id \in files
       THEN /\ CommitDownloads(addDownload(DownloadStore, id, LocalPathOf(id)))
            /\ task' = [task EXCEPT ![id] = "adding"]
            /\ sinceLastUpdate' = clearLastUpdate(sinceLastUpdate, {id})
            /\ UNCHANGED <<serviceActive, files, sinceApplied>>
       ELSE /\ serviceActive' = serviceActive \cup {id}
            /\ files' = files \cup {id}
            /\ task' = [task EXCEPT ![id] = "transferring"]
            /\ UNCHANGED <<downloadStoreVars, throttleVars>>
    /\ UNCHANGED <<isProcessingQueue, pumpAwaiting, cancelTask, deleteAllTask>>
    /\ UNCHANGED <<playerVars, feedVars>>

\* The transfer reports progress: the callback of startDownload runs with
\* status 'downloading'
TransferProgress(id) ==
    /\ Quiescent
    /\ task[id] = "transferring"
    /\ CommitDownloads(progressCallback(DownloadStore, id, "downloading", sinceLastUpdate[id]))
    /\ IF progressCallbackApplies("downloading", sinceLastUpdate[id])
       THEN /\ sinceLastUpdate' = [sinceLastUpdate EXCEPT ![id] = 0]
            /\ sinceApplied' = [sinceApplied EXCEPT ![id] = 0]
       ELSE UNCHANGED throttleVars
    /\ UNCHANGED downloadTaskVars
    /\ UNCHANGED <<playerVars, feedVars>>

\* downloadAsync resolves with a uri: the 'completed' callback, the service's
\* finally block, and startDownload's addDownload
TransferSucceeds(id) ==
    /\ Quiescent
    /\ task[id] = "transferring"
    /\ CommitDownloads(addDownload(progressCallback(DownloadStore, id, "completed",
                                                    sinceLastUpdate[id]),
                                   id, LocalPathOf(id)))
    /\ serviceActive' = serviceActive \ {id}
    /\ task' = [task EXCEPT ![id] = "adding"]
    /\ sinceLastUpdate' = clearLastUpdate(sinceLastUpdate, {id})
    /\ UNCHANGED sinceApplied
    /\ UNCHANGED <<isProcessingQueue, files, pumpAwaiting, cancelTask, deleteAllTask>>
    /\ UNCHANGED <<playerVars, feedVars>>

\* startDownload's removeDownloadProgress after addDownload, and the return
FinishDownload(id) ==
    /\ task[id] = "adding"
    /\ SettleStartDownload(removeDownloadProgress(DownloadStore, id), id, "idle")
    /\ UNCHANGED <<serviceActive, files, cancelTask, deleteAllTask>>
    /\ UNCHANGED <<playerVars, feedVars>>

\* The transfer (or its preparation) throws, or downloadAsync resolves without a
\* uri after a pause: the service's catch and finally, then startDownload's catch
TransferFails(id) ==
    /\ Quiescent
    /\ task[id] \in {"preparing", "transferring", "paused"}
    /\ SettleStartDownload(
           removeDownloadProgress(
               IF task[id] = "preparing" THEN DownloadStore
               ELSE progressCallback(DownloadStore, id, "failed", sinceLastUpdate[id]),
               id),
           id, "idle")
    /\ serviceActive' = serviceActive \ {id}
    /\ UNCHANGED <<files, cancelTask, deleteAllTask>>
    /\ UNCHANGED <<playerVars, feedVars>>

\* cancelDownload up to its first await: with no resumable registered the
\* service returns and the two store removals follow at once
CancelDownload(id) ==
    /\ Quiescent
    /\ cancelTask[id] # "pausing"
    /\ activeDownloads[id] # "none" \/ id \in SeqRange(downloadQueue)
    /\ IF id \in serviceActive
       THEN /\ cancelTask' = [cancelTask EXCEPT ![id] = "pausing"]
            /\ UNCHANGED downloadStoreVars
       ELSE /\ CommitDownloads(removeFromDownloadQueue(removeDownloadProgress(DownloadStore, id), id))
            /\ UNCHANGED cancelTask
    /\ UNCHANGED <<isProcessingQueue, serviceActive, files, task, pumpAwaiting, deleteAllTask>>
    /\ UNCHANGED throttleVars
    /\ UNCHANGED <<playerVars, feedVars>>

\* pauseAsync resolves: the resumable is unregistered, the file at its path is
\* deleted, and the hook removes the progress record and the queue entry
CancelSettles(id) ==
    /\ Quiescent
    /\ cancelTask[id] = "pausing"
    /\ serviceActive' = serviceActive \ {id}
    /\ files' = files \ {id}
    /\ task' = [task EXCEPT ![id] = IF @ = "transferring" THEN "paused" ELSE @]
    /\ CommitDownloads(removeFromDownloadQueue(removeDownloadProgress(DownloadStore, id), id))
    /\ cancelTask' = [cancelTask EXCEPT ![id] = "settled"]
    /\ UNCHANGED <<isProcessingQueue, pumpAwaiting, deleteAllTask>>
    /\ UNCHANGED throttleVars
    /\ UNCHANGED <<playerVars, feedVars>>

\* deleteDownload: the file at the recorded path is deleted, then the record
DeleteDownload(id) ==
    /\ Quiescent
    /\ files' = IF getLocalPath(DownloadStore, id) # NoPath THEN files \ {id} ELSE files
    /\ CommitDownloads(removeDownload(DownloadStore, id))
    /\ UNCHANGED <<isProcessingQueue, serviceActive, task, pumpAwaiting, cancelTask, deleteAllTask>>
    /\ UNCHANGED throttleVars
    /\ UNCHANGED <<playerVars, feedVars>>

\* deleteAllDownloads is called: the service starts cancelling active transfers
DeleteAllBegin ==
    /\ Quiescent
    /\ deleteAllTask = "idle"
    /\ deleteAllTask' = "cancelling"
    /\ UNCHANGED <<downloadStoreVars, isProcessingQueue, serviceActive, files, task, pumpAwaiting, cancelTask>>
    /\ UNCHANGED throttleVars
    /\ UNCHANGED <<playerVars, feedVars>>

\* One turn of the service's loop over its active transfers: cancelDownload(id)
DeleteAllCancel(id) ==
    /\ Quiescent
    /\ deleteAllTask = "cancelling"
    /\ id \in serviceActive
    /\ serviceActive' = serviceActive \ {id}
    /\ files' = files \ {id}
    /\ task' = [task EXCEPT ![id] = IF @ = "transferring" THEN "paused" ELSE @]
    /\ UNCHANGED <<downloadStoreVars, isProcessingQueue, pumpAwaiting, cancelTask, deleteAllTask>>
    /\ UNCHANGED throttleVars
    /\ UNCHANGED <<playerVars, feedVars>>

\* The loop is over: the downloads directory is deleted
DeleteAllDirectory ==
    /\ Quiescent
    /\ deleteAllTask = "cancelling"
    /\ serviceActive = {}
    /\ files' = {}
    /\ deleteAllTask' = "clearing"
    /\ UNCHANGED <<downloadStoreVars, isProcessingQueue, serviceActive, task, pumpAwaiting, cancelTask>>
    /\ UNCHANGED throttleVars
    /\ UNCHANGED <<playerVars, feedVars>>

\* The service call has returned: clearAllDownloads
DeleteAllFinish ==
    /\ Quiescent
    /\ deleteAllTask = "clearing"
    /\ CommitDownloads(clearAllDownloads(DownloadStore))
    /\ deleteAllTask' = "idle"
    /\ UNCHANGED <<isProcessingQueue, serviceActive, files, task, pumpAwaiting, cancelTask>>
    /\ UNCHANGED throttleVars
    /\ UNCHANGED <<playerVars, feedVars>>

\* partialize keeps downloads and downloadQueue; files stay on disk; transfers,
\* pending calls and React state are gone
RehydrateDownloads ==
    /\ UNCHANGED <<downloads, downloadQueue, files>>
    /\ activeDownloads' = [id \in Episodes |-> "none"]
    /\ isProcessingQueue' = FALSE
    /\ serviceActive' = {}
    /\ task' = [id \in Episodes |-> "idle"]
    /\ pumpAwaiting' = {}
    /\ cancelTask' = [id \in Episodes |-> "idle"]
    /\ deleteAllTask' = "idle"
    /\ sinceLastUpdate' = [id \in Episodes |-> ProgressUpdateInterval]
    /\ sinceApplied' = [id \in Episodes |-> Never]

\* ----------------------------------------------------------- the feed store
Feeds == 1..NumFeeds

NoError == "null"
NoRefresh == [pc |-> "idle", hasCachedData |-> FALSE, networkFailed |-> FALSE]

FeedTypeOK ==
    /\ feed \in [shows : SUBSET Feeds, episodes : SUBSET Feeds, feedConfigs : SUBSET Feeds,
                 isLoading : BOOLEAN, isRefreshing : BOOLEAN,
                 error : {NoError}, isOffline : BOOLEAN]
    /\ refresh \in [pc : {"idle", "getAllFeeds", "parseAllFeeds"}, hasCachedData : BOOLEAN, networkFailed : BOOLEAN]

InitFeed ==
    /\ feed = [shows |-> {}, episodes |-> {}, feedConfigs |-> {},
               isLoading |-> FALSE, isRefreshing |-> FALSE,
               error |-> NoError, isOffline |-> FALSE]
    /\ refresh = NoRefresh

\* refreshFeeds up to its first await.  A call made while another is in flight
\* returns at once and changes nothing.
RefreshBegin(silent) ==
    /\ refresh.pc = "idle"
    /\ ~(feed.isLoading \/ feed.isRefreshing)
    /\ LET hasCachedData == feed.shows # {}
       IN /\ feed' = IF ~hasCachedData /\ ~silent
                     THEN [feed EXCEPT !.isLoading = TRUE, !.error = NoError,
                                       !.isOffline = FALSE]
                     ELSE [feed EXCEPT !.isRefreshing = TRUE, !.isOffline = FALSE]
          /\ refresh' = [pc |-> "getAllFeeds", hasCachedData |-> hasCachedData,
                         networkFailed |-> FALSE]
    /\ UNCHANGED <<playerVars, downloadVars>>

\* getAllFeeds settles: fetchRemoteFeeds catches every failure and returns [],
\* DEFAULT_FEEDS is empty, so the merged list is the remote list (remoteFeeds,
\* as the remote file stands at the time) or nothing; the promise never rejects.
RefreshConfigs(fetched, remoteFeeds) ==
    /\ refresh.pc = "getAllFeeds"
    /\ feed' = [feed EXCEPT !.feedConfigs = IF fetched THEN remoteFeeds ELSE {}]
    /\ refresh' = [refresh EXCEPT !.pc = "parseAllFeeds", !.networkFailed = ~fetched]
    /\ UNCHANGED <<playerVars, downloadVars>>

\* parseAllFeeds settles (Promise.allSettled: the feeds of parsed were fetched,
\* the others rejected; it never rejects itself) and refreshFeeds runs to its end.
RefreshParse(parsed) ==
    /\ refresh.pc = "parseAllFeeds"
    /\ parsed \subseteq feed.feedConfigs
    /\ feed' = IF parsed = {} /\ refresh.hasCachedData
               THEN [feed EXCEPT !.isLoading = FALSE, !.isRefreshing = FALSE,
                                 !.isOffline = TRUE, !.error = NoError]
               ELSE [feed EXCEPT !.shows = parsed, !.episodes = parsed,
                                 !.isLoading = FALSE, !.isRefreshing = FALSE,
                                 !.error = NoError, !.isOffline = FALSE]
    /\ refresh' = [refresh EXCEPT !.pc = "idle",
                                  !.networkFailed = \/ refresh.networkFailed
                                                   \/ (feed.feedConfigs # {} /\ parsed = {})]
    /\ UNCHANGED <<playerVars, downloadVars>>

\* persist keeps shows, episodes and feedConfigs; onRehydrateStorage clears
\* isOffline and error; the flags start from their initial values
RehydrateFeed ==
    /\ feed' = [feed EXCEPT !.isLoading = FALSE, !.isRefreshing = FALSE,
                            !.error = NoError, !.isOffline = FALSE]
    /\ refresh' = NoRefresh

\* The app is killed and started again: the stores rehydrate
Restart == RehydratePlayer /\ RehydrateDownloads /\ RehydrateFeed

\* Suffixes of the show's list: what the hook passes to setQueue
QueueInputs == {sliceFrom(CatalogEpisodes, k) : k \in 0..Len(CatalogEpisodes)}

\* Direct edits of the queue
QueueEditNext ==
    \/ \E e \in Episodes : AddToQueue(e)
    \/ \E eps \in QueueInputs : SetQueue(eps)
    \/ \E e \in Episodes : RemoveFromQueue(e)
    \/ ClearQueue
    \/ \E i, j \in 0..(Len(queue) - 1) : ReorderQueue(i, j)

\* The store's transitions of the current episode
LedgerNext ==
    \/ \E e \in Episodes : SetCurrentEpisode(e)
    \/ PlayNext
    \/ PlayPrevious
    \/ \E e \in Episodes : ClearSavedPosition(e)

\* The hook's commands, on episodes of E with the engine's position drawn from P
CommandNext(E, P) ==
    \/ \E e \in E : PlayEpisode(e)
    \/ \E p \in P : TogglePlayPause(p)
    \/ \E p \in P : Stop(p)
    \/ \E p \in P : SkipToNext(p)
    \/ \E p \in P : SkipToPrevious(p)
    \/ \E p \in P : SkipToPreviousHistory(p)

TimerNext ==
    \/ AutoSaveEffect
    \/ AutoSaveTick

EventNext(P) ==
    \/ \E p \in P : ProgressEvent(p)
    \/ EngineStartsPlaying
    \/ EngineFails
    \/ TrackEndedEvent
    \/ RemoteNextEvent
    \/ \E p \in P : RemotePrevEvent(p)

\* Everything that writes savedPositions: the commands, the auto-save timer and
\* the engine events (which reach every store transition), and clearSavedPosition
PositionNext(E, P) ==
    \/ \E e \in E : ClearSavedPosition(e)
    \/ CommandNext(E, P)
    \/ TimerNext
    \/ EventNext(P)
    \/ MountHook

\* TickMs ms pass
Tick ==
    /\ sinceLastUpdate' = [id \in Episodes |-> elapse(sinceLastUpdate[id], TickMs)]
    /\ sinceApplied' = [id \in Episodes |-> elapse(sinceApplied[id], TickMs)]
    /\ UNCHANGED <<downloadStoreVars, downloadTaskVars>>
    /\ UNCHANGED <<playerVars, feedVars>>

\* The download hook on the ids of I.  One startDownload call per id is
\* followed at a time, so the Download button is not pressed for an id that
\* the pump is still to start.
DownloadNext(I) ==
    \/ \E id \in I : id \notin SeqRange(downloadQueue) /\ StartDownload(id)
    \/ \E id \in I : QueueDownload(id)
    \/ \E id \in I : BeginTransfer(id)
    \/ \E id \in I : TransferProgress(id)
    \/ \E id \in I : TransferSucceeds(id)
    \/ \E id \in I : FinishDownload(id)
    \/ \E id \in I : TransferFails(id)
    \/ \E id \in I : CancelDownload(id)
    \/ \E id \in I : CancelSettles(id)
    \/ \E id \in I : DeleteDownload(id)
    \/ DeleteAllBegin
    \/ \E id \in I : DeleteAllCancel(id)
    \/ DeleteAllDirectory
    \/ DeleteAllFinish
    \/ Tick

Init == InitPlayer /\ InitDownloads /\ InitFeed

\* The player: queue edits, ledger transitions, commands and engine events
Next ==
    \/ QueueEditNext
    \/ LedgerNext
    \/ CommandNext(Episodes, Positions)
    \/ EventNext(Positions)
    \/ MountHook
    \/ Restart

Spec == Init /\ [][Next]_vars

\* Saved positions, with positions on both sides of the save threshold
PositionEpisodes == 1..NumPositionEpisodes

NextPosition ==
    \/ PositionNext(PositionEpisodes, FinePositions)
    \/ Restart

SpecPosition == Init /\ [][NextPosition]_vars

\* The download subsystem
NextDownload ==
    \/ DownloadNext(Episodes)
    \/ Restart

SpecDownload == Init /\ [][NextDownload]_vars

\* User data: saved positions and downloads together, across restarts
DataEpisodes == 1..NumDataEpisodes

NextData ==
    \/ PositionNext(DataEpisodes, Positions)
    \/ DownloadNext(DataEpisodes)
    \/ Restart

SpecData == Init /\ [][NextData]_vars

\* The player with an engine whose load can throw
NextEngineFailure ==
    \/ CommandNext(PositionEpisodes, Positions)
    \/ EventNext(Positions)
    \/ MountHook
    \/ \E e \in PositionEpisodes : PlayEpisodeFails(e)

SpecEngineFailure == Init /\ [][NextEngineFailure]_vars

\* The player with the auto-play-next setting switched on and off
NextAutoPlay ==
    \/ CommandNext(PositionEpisodes, Positions)
    \/ EventNext(Positions)
    \/ MountHook
    \/ \E value \in BOOLEAN : SetAutoPlayNext(value)

SpecAutoPlay == Init /\ [][NextAutoPlay]_vars

\* Positions on both sides of the "previous" threshold
PrevPositions == {PrevRestartMs - 1, PrevRestartMs, PrevRestartMs + 1}

\* The player driven by the hook's commands and the engine's events, with the
\* engine's position near the "previous" threshold
NextPrevious ==
    \/ CommandNext(Episodes, PrevPositions)
    \/ EventNext(PrevPositions)
    \/ MountHook
    \/ Restart

SpecPrevious == Init /\ [][NextPrevious]_vars

\* A download queue left in storage by earlier runs: a process killed between
\* queueDownload's addToDownloadQueue and processQueue's removeFromDownloadQueue
\* leaves the id queued, so any duplicate-free sequence of ids can be found there.
RECURSIVE QueuesOver(_)
QueuesOver(ids) ==
    {<<>>} \cup UNION {{<<id>> \o q : q \in QueuesOver(ids \ {id})} : id \in ids}

InitPump ==
    /\ InitPlayer
    /\ InitFeed
    /\ downloads = [id \in Episodes |-> NoPath]
    /\ activeDownloads = [id \in Episodes |-> "none"]
    /\ downloadQueue \in QueuesOver(Episodes)
    /\ isProcessingQueue = FALSE
    /\ serviceActive = {}
    /\ files = {}
    /\ task = [id \in Episodes |-> "idle"]
    /\ pumpAwaiting = {}
    /\ cancelTask = [id \in Episodes |-> "idle"]
    /\ deleteAllTask = "idle"
    /\ sinceLastUpdate = [id \in Episodes |-> ProgressUpdateInterval]
    /\ sinceApplied = [id \in Episodes |-> Never]

\* The download subsystem started with such a queue
SpecQueue == InitPump /\ [][NextDownload]_vars

\* The pump alone: requests, transfers and their settling, nothing cancelled or
\* deleted.  Every pending promise continuation runs and every transfer settles.
NextPump ==
    \/ \E id \in Episodes : id \notin SeqRange(downloadQueue) /\ StartDownload(id)
    \/ \E id \in Episodes : QueueDownload(id)
    \/ \E id \in Episodes : BeginTransfer(id)
    \/ \E id \in Episodes : TransferProgress(id)
    \/ \E id \in Episodes : TransferSucceeds(id)
    \/ \E id \in Episodes : FinishDownload(id)
    \/ \E id \in Episodes : TransferFails(id)
    \/ Tick

\* The Download button alone on such a queue: the pump is never invoked, so
\* the ids left in the queue stay there while the button starts them.
NextButton ==
    \/ \E id \in Episodes : StartDownload(id)
    \/ \E id \in Episodes : BeginTransfer(id)
    \/ \E id \in Episodes : TransferProgress(id)
    \/ \E id \in Episodes : TransferSucceeds(id)
    \/ \E id \in Episodes : FinishDownload(id)
    \/ \E id \in Episodes : TransferFails(id)
    \/ Tick

SpecButton == InitPump /\ [][NextButton]_vars

SpecPump ==
    /\ InitPump
    /\ [][NextPump]_vars
    /\ \A id \in Episodes :
        /\ WF_vars(BeginTransfer(id))
        /\ WF_vars(TransferSucceeds(id) \/ TransferFails(id))
        /\ WF_vars(FinishDownload(id))

\* The play history at its cap.  The episode played (with an empty queue) is
\* the successor of the current one or the most recent entry of the history;
\* playPrevious and playNext move along the history and the queue it fills.
HistorySuccessor(e) == IF e = None \/ e = NumHistoryEpisodes THEN 1 ELSE e + 1

HistoryInputs ==
    {HistorySuccessor(currentEpisode)}
        \cup (IF playHistory = <<>> THEN {} ELSE {Head(playHistory)})

NextHistory ==
    \/ queue = <<>> /\ \E e \in HistoryInputs : SetCurrentEpisode(e)
    \/ PlayNext
    \/ PlayPrevious
    \/ Restart

SpecHistory == Init /\ [][NextHistory]_vars

\* Reordering with every index a caller can pass, past the end included; an
\* out-of-range removal inserts an undefined slot, so growth is capped.
ReorderIndices == 0..MaxQueueLen

NextReorder ==
    \/ \E e \in Episodes : SetCurrentEpisode(e)
    \/ \E e \in Episodes : AddToQueue(e)
    \/ \E eps \in QueueInputs : SetQueue(eps)
    \/ \E e \in Episodes : RemoveFromQueue(e)
    \/ \E fromIndex, toIndex \in ReorderIndices :
           /\ fromIndex < Len(queue) \/ Len(queue) < MaxQueueLen
           /\ ReorderQueue(fromIndex, toIndex)

SpecReorder == Init /\ [][NextReorder]_vars

\* The store's navigation with a running position: episodes are played,
\* queued, and stepped through while progress events move the position.
NextLedger ==
    \/ LedgerNext
    \/ \E e \in Episodes : AddToQueue(e)
    \/ MountHook
    \/ \E e \in PositionEpisodes : PlayEpisode(e)
    \/ EngineStartsPlaying
    \/ \E p \in Positions : ProgressEvent(p)

SpecLedger == Init /\ [][NextLedger]_vars

\* The catalog's refreshes, silent and not, with the network up or down, across
\* restarts
NextFeed ==
    \/ \E silent \in BOOLEAN : RefreshBegin(silent)
    \/ \E fetched \in BOOLEAN, remoteFeeds \in SUBSET Feeds : RefreshConfigs(fetched, remoteFeeds)
    \/ \E parsed \in SUBSET Feeds : RefreshParse(parsed)
    \/ Restart

SpecFeed == Init /\ [][NextFeed]_vars

\* ------------------------------------------------------- engine loads
\* The remote audio URL of an episode, and a local path, as values a load can
\* be told apart by
AudioUrlOf(e) == [local |-> FALSE, of |-> e]
FileUri(localPath) == [local |-> TRUE, of |-> localPath]

\* loadOf with the download store left aside (a faulty variant, for comparison)
loadOfStreams(s, d, episode) ==
    [episode |-> episode, uri |-> AudioUrlOf(episode),
     startTimeMs |-> getSavedPosition(s, episode)]

\* The block every handler ends with: uri = getLocalPath(id) || audioUrl,
\* initialPosition = getSavedPosition(id), audioService.play(episode, uri,
\* {startTimeMs: initialPosition}); s and d are the stores as the block reads them.
loadOf(s, d, episode) ==
    [episode |-> episode,
     uri |-> IF getLocalPath(d, episode) # NoPath
             THEN FileUri(getLocalPath(d, episode)) ELSE AudioUrlOf(episode),
     startTimeMs |-> getSavedPosition(s, episode)]

\* playEpisode resolves uri and offset first, then calls setCurrentEpisode
playEpisodeLoad(s, d, episode, startFromBeginning) ==
    [loadOf(s, d, episode) EXCEPT !.startTimeMs = IF startFromBeginning THEN 0 ELSE @]

\* The navigating handlers resolve them after their store calls.  s is the
\* store the handler starts from (for a listener of the hook: as audioSetup's
\* handler left it); the handler issues the load only when it navigates.
handlerLoad(handler, s, d, positionNow) ==
    CASE handler = "skipToNext" ->
            loadOf(skipToNextStore(s, positionNow), d, playNextResult(s))
      [] handler = "skipToPrevious" ->
            loadOf(skipToPreviousStore(s, positionNow), d,
                   skipToPreviousStore(s, positionNow).currentEpisode)
      [] handler = "TRACK_ENDED" -> loadOf(hookTrackEnded(s), d, playNextResult(s))
      [] handler = "REMOTE_NEXT" -> loadOf(hookRemoteNext(s), d, playNextResult(s))
      [] handler = "REMOTE_PREV" ->
            loadOf(hookRemotePrev(s, positionNow), d,
                   hookRemotePrev(s, positionNow).currentEpisode)

handlerStore(handler, s, positionNow) ==
    CASE handler = "skipToNext" -> skipToNextStore(s, positionNow)
      [] handler = "skipToPrevious" -> skipToPreviousStore(s, positionNow)
      [] handler = "TRACK_ENDED" -> hookTrackEnded(s)
      [] handler = "REMOTE_NEXT" -> hookRemoteNext(s)
      [] handler = "REMOTE_PREV" -> hookRemotePrev(s, positionNow)

handlerLoads(handler, s, positionNow) ==
    CASE handler = "skipToNext" -> playNextResult(s) \in AllEpisodes
      [] handler = "skipToPrevious" -> skipToPreviousNavigates(s, positionNow)
      [] handler = "TRACK_ENDED" -> hookTrackEndedPlays(s)
      [] handler = "REMOTE_NEXT" -> hookRemoteNextPlays(s)
      [] handler = "REMOTE_PREV" -> hookRemotePrevNavigates(s, positionNow)

\* The store a handler starts from when the present state is the one its
\* command or event arrives in
handlerStart(handler) ==
    CASE handler = "TRACK_ENDED" -> handleTrackEnded(Store)
      [] handler = "REMOTE_NEXT" -> handleRemoteNext(Store)
      [] OTHER -> Store

Handlers == {"skipToNext", "skipToPrevious", "TRACK_ENDED", "REMOTE_NEXT", "REMOTE_PREV"}

\* The player with downloads completing and being deleted
NextLoad ==
    \/ CommandNext(PositionEpisodes, Positions)
    \/ EventNext(Positions)
    \/ MountHook
    \/ \E id \in PositionEpisodes : id \notin SeqRange(downloadQueue) /\ StartDownload(id)
    \/ \E id \in PositionEpisodes : BeginTransfer(id)
    \/ \E id \in PositionEpisodes : TransferSucceeds(id)
    \/ \E id \in PositionEpisodes : FinishDownload(id)
    \/ \E id \in PositionEpisodes : DeleteDownload(id)

SpecLoad == Init /\ [][NextLoad]_vars

\* ===================================================================== claims
NoDuplicates(seq) == \A i, j \in 1..Len(seq) : seq[i] = seq[j] => i = j

Count(seq, e) == Cardinality({i \in 1..Len(seq) : seq[i] = e})

\* C1: the id of the current episode never occurs in the queue, whatever
\* sequence of setCurrentEpisode, addToQueue, setQueue, playNext, playPrevious
\* and playEpisode led to the state.
CurrentNotInQueue ==
    currentEpisode = None \/ currentEpisode \notin SeqRange(queue)

\* C2: at no time do two progress records have the status 'downloading', for
\* any mix of queueDownload, processQueue and direct startDownload calls.
OneTransferInFlight ==
    Cardinality({id \in Episodes : activeDownloads[id] = "downloading"}) <= 1

\* C3: a processQueue invocation made (here through queueDownload) while a
\* transfer started by an earlier processQueue has not settled is a no-op: it
\* removes nothing from downloadQueue and starts no transfer.
ProcessQueueNoOpWhileBusy ==
    [][(pumpAwaiting # {} /\ \E id \in Episodes : QueueDownload(id))
         => /\ SeqRange(downloadQueue) \subseteq SeqRange(downloadQueue')
            /\ task' = task]_vars

\* C4: one TRACK_ENDED event causes at most one playNext transition: the queue
\* shrinks by at most one and the new current episode is the former queue head.
TrackEndedAdvancesOnce ==
    [][TrackEndedEvent
         => /\ Len(queue') >= Len(queue) - 1
            /\ queue # <<>> => currentEpisode' = Head(queue)]_vars

\* C5: user data is never lost.  An entry of savedPositions persists unless
\* clearSavedPosition is called for it, and an entry of downloads disappears
\* only through deleteDownload or deleteAllDownloads, whatever engine
\* failures, track transitions and restarts happen.
UserDataKept ==
    [][/\ \A e \in AllEpisodes :
            (savedPositions[e] # Absent /\ savedPositions'[e] = Absent)
                => ClearSavedPosition(e)
       /\ \A id \in Episodes :
            (downloads[id] # NoPath /\ downloads'[id] = NoPath)
                => (DeleteDownload(id) \/ DeleteAllFinish)]_vars

\* a saved position and a finished download are there across a restart
UserDataKeptWitness ==
    /\ \E e \in AllEpisodes : savedPositions[e] # Absent
    /\ \E id \in Episodes : downloads[id] # NoPath
    /\ audioState = "IDLE" /\ currentEpisode # None /\ playHistory = <<>>
    /\ hookListeners = 0

\* C6: every entry of savedPositions is at least 5000 ms.
SavedPositionsAtLeastMin ==
    \A e \in AllEpisodes :
        savedPositions[e] = Absent \/ savedPositions[e] >= MinSavePosition

\* an entry exists while the store's position is below the threshold
SavedPositionsWitness ==
    /\ currentEpisode # None
    /\ savedPositions[currentEpisode] = MinSavePosition
    /\ position = MinSavePosition - 1

\* C7: playHistory never holds more than 20 entries nor two entries of one id;
\* pushing an episode that is already in the history moves it to the front.
HistoryBoundedNoDuplicates ==
    /\ [](Len(playHistory) <= HistoryLimit /\ NoDuplicates(playHistory))
    /\ [][(/\ currentEpisode # None
           /\ currentEpisode \in SeqRange(playHistory)
           /\ \/ \E e \in AllEpisodes : SetCurrentEpisode(e)
              \/ (queue # <<>> /\ PlayNext))
            => /\ Head(playHistory') = currentEpisode
               /\ Len(playHistory') = Len(playHistory)
               /\ Count(playHistory', currentEpisode) = 1]_vars

\* the history is full, its oldest entries have been dropped, and the current
\* episode is one of its entries (the next push moves it to the front)
HistoryWitness ==
    /\ Len(playHistory) = HistoryLimit
    /\ 1 \notin SeqRange(playHistory)
    /\ currentEpisode \in SeqRange(playHistory)

\* C8: the queue never holds two items of one episode id.
QueueNoDuplicates == NoDuplicates(queue)

\* C9: when cancelDownload(id) was called during id's transfer and both the
\* cancellation and the startDownload call have settled, id is in neither
\* activeDownloads nor downloadQueue and downloads has gained no entry for it.
CancelledLeavesNothing ==
    \A id \in Episodes :
        (cancelTask[id] = "settled" /\ task[id] = "idle")
            => /\ activeDownloads[id] = "none"
               /\ id \notin SeqRange(downloadQueue)
               /\ downloads[id] = NoPath

\* C10: in every state a store subscriber can observe, no id has both a
\* progress record in activeDownloads and an entry in downloads.
NotActiveAndDownloaded ==
    \A id \in Episodes : ~(activeDownloads[id] # "none" /\ downloads[id] # NoPath)

\* C11: once processQueue has been invoked (a call of it awaits a transfer),
\* every id then in downloadQueue is eventually removed from it and, when it
\* resolves to an episode, has its transfer attempted, whether or not earlier
\* transfers failed or earlier ids could not be resolved.
PumpDrainsQueue ==
    \A id \in Episodes :
        (id \in SeqRange(downloadQueue) /\ pumpAwaiting # {})
            ~> /\ id \notin SeqRange(downloadQueue)
               /\ getEpisodeById(id) # None
                    => (task[id] = "preparing" \/ downloads[id] # NoPath)

\* the pump awaits a transfer while a later id still waits in the queue
PumpDrainsQueueWitness ==
    \E a, b \in Episodes :
        /\ a # b /\ getEpisodeById(b) # None
        /\ a \in pumpAwaiting /\ task[a] = "transferring"
        /\ b \in SeqRange(downloadQueue)

\* C12: when the pump is done with a queued id that resolved and whose transfer
\* succeeded, downloads holds the path the transfer returned for it,
\* activeDownloads has no record of it and downloadQueue does not hold it.
PumpedDownloadRecorded ==
    [][\A id \in Episodes :
          (id \in pumpAwaiting /\ FinishDownload(id))
              => /\ downloads'[id] = LocalPathOf(id)
                 /\ activeDownloads'[id] = "none"
                 /\ id \notin SeqRange(downloadQueue')]_vars

\* the transfer of an id the pump took from the queue has just succeeded, with
\* other ids still queued
PumpedDownloadWitness ==
    \E id \in Episodes :
        /\ id \in pumpAwaiting /\ task[id] = "adding"
        /\ downloadQueue # <<>>

\* C13: from any state with a current episode and a non-empty queue, playNext()
\* followed at once by the history-based playPrevious() gives back the same
\* current episode and the same queue (same ids, same order).
PlayNextThenPreviousRestores ==
    (currentEpisode # None /\ queue # <<>>)
        => LET s2 == playPrevious(playNext(Store))
           IN s2.currentEpisode = currentEpisode /\ s2.queue = queue

\* a current episode with two queued ones and a history: playNext moves on to
\* another episode
PlayNextThenPreviousWitness ==
    /\ currentEpisode # None /\ Len(queue) >= 2 /\ playHistory # <<>>
    /\ playNext(Store).currentEpisode # currentEpisode
    /\ playPrevious(playNext(Store)).currentEpisode = currentEpisode

\* The episodes of e's show that come after e in the show's list
EpisodesAfter(e) ==
    LET showEpisodes == getEpisodesByShowId(ShowOf(e))
        currentIndex == findIndex(showEpisodes, e)
    IN IF currentIndex >= 0 THEN sliceFrom(showEpisodes, currentIndex + 1) ELSE <<>>

\* C14: after playEpisode(E), whatever the queue held, the current episode is E
\* and the queue is exactly the episodes of E's show after E, in the show's
\* order (empty when E is the last of its show).
PlayEpisodeSetsQueue ==
    [][\A e \in Episodes :
          PlayEpisode(e) => (currentEpisode' = e /\ queue' = EpisodesAfter(e))]_vars

\* The episode before e in its show's list (None when there is none)
PreviousInShow(e) ==
    LET showEpisodes == getEpisodesByShowId(ShowOf(e))
        currentIndex == findIndex(showEpisodes, e)
    IN IF currentIndex > 0 THEN showEpisodes[currentIndex] ELSE None

\* C15: a "previous" command (either revision of skipToPrevious, or the remote
\* previous button) issued more than 3000 ms into the track leaves the current
\* episode, the queue and the history as they were; only at 3000 ms or less can
\* it change the current episode.
PreviousPastThresholdKeeps ==
    [][\A p \in PrevPositions :
          (SkipToPrevious(p) \/ SkipToPreviousHistory(p) \/ RemotePrevEvent(p))
              => /\ p > PrevRestartMs => UNCHANGED <<currentEpisode, queue, playHistory>>
                 /\ currentEpisode' # currentEpisode => p <= PrevRestartMs]_vars

\* more than 3000 ms into an episode that has a predecessor in its show and in
\* the history, with the hook mounted and a track loaded
PreviousPastThresholdWitness ==
    /\ HookMounted /\ hasTrack /\ hookListeners > 0
    /\ currentEpisode # None /\ PreviousInShow(currentEpisode) # None
    /\ playHistory # <<>> /\ queue # <<>>
    /\ position = PrevRestartMs + 1

\* C16 (as the code has it): with a previous track available, "previous" at
\* 2999 ms navigates to the previous track and "previous" at 3001 ms leaves the
\* current episode, the queue and the history as they were.
PreviousThresholdSides ==
    [][/\ (SkipToPrevious(PrevRestartMs + 1) \/ SkipToPreviousHistory(PrevRestartMs + 1))
            => UNCHANGED <<currentEpisode, queue, playHistory>>
       /\ (currentEpisode # None /\ PreviousInShow(currentEpisode) # None
             /\ SkipToPrevious(PrevRestartMs - 1))
            => currentEpisode' = PreviousInShow(currentEpisode)
       /\ (playHistory # <<>> /\ SkipToPreviousHistory(PrevRestartMs - 1))
            => (currentEpisode' = Head(playHistory) /\ playHistory' = Tail(playHistory))]_vars

\* C16 (as stated): with a previous track available, "previous" at 2999 ms
\* restarts the current track and "previous" at 3001 ms navigates to the
\* previous track.
PreviousThresholdAsStated ==
    [][/\ (currentEpisode # None /\ PreviousInShow(currentEpisode) # None
             /\ SkipToPrevious(PrevRestartMs - 1))
            => UNCHANGED <<currentEpisode, queue, playHistory>>
       /\ (playHistory # <<>> /\ SkipToPreviousHistory(PrevRestartMs - 1))
            => UNCHANGED <<currentEpisode, queue, playHistory>>
       /\ (currentEpisode # None /\ PreviousInShow(currentEpisode) # None
             /\ SkipToPrevious(PrevRestartMs + 1))
            => currentEpisode' = PreviousInShow(currentEpisode)
       /\ (playHistory # <<>> /\ SkipToPreviousHistory(PrevRestartMs + 1))
            => currentEpisode' = Head(playHistory)]_vars

\* a previous track is available both ways, just below the threshold
PreviousThresholdWitness ==
    /\ HookMounted
    /\ currentEpisode # None /\ PreviousInShow(currentEpisode) # None
    /\ playHistory # <<>> /\ Head(playHistory) # currentEpisode
    /\ position = PrevRestartMs - 1

\* C17 (as the code has it): calling addToQueue(E) twice in a row, the second
\* call changes nothing; after the calls the queue holds one item of E's id
\* when E is not the current episode and the queue held none, and as many as it
\* held before otherwise (none when E is the current episode).
AddToQueueTwice ==
    \A e \in Episodes :
        LET s1 == addToQueue(Store, e)
            s2 == addToQueue(s1, e)
        IN /\ s2 = s1
           /\ Count(s1.queue, e) =
                 IF e = currentEpisode \/ Count(queue, e) > 0
                 THEN Count(queue, e) ELSE 1

\* C17 (as stated): for every episode E and every state, calling addToQueue(E)
\* twice in a row leaves exactly one item of E's id in the queue, and the second
\* call changes nothing.
AddToQueueTwiceExactlyOne ==
    \A e \in Episodes :
        LET s1 == addToQueue(Store, e)
            s2 == addToQueue(s1, e)
        IN s2 = s1 /\ Count(s2.queue, e) = 1

\* an episode is playing, one not in the queue can be added and one is queued
AddToQueueTwiceWitness ==
    /\ currentEpisode # None /\ queue # <<>>
    /\ \E e \in Episodes : e # currentEpisode /\ Count(queue, e) = 0
    /\ Count(addToQueue(addToQueue(Store, currentEpisode), currentEpisode).queue,
             currentEpisode) = 0

\* C18 (as the code has it): savePosition(id, P) with P < 5000 changes nothing,
\* so getSavedPosition(id) returns what it returned before (0 when id has no
\* entry); with P >= 5000 it returns P.
SaveThenGetPosition ==
    \A e \in PositionEpisodes, p \in FinePositions :
        LET s1 == savePosition(Store, e, p)
        IN IF p < MinSavePosition
           THEN s1 = Store /\ getSavedPosition(s1, e) = getSavedPosition(Store, e)
           ELSE getSavedPosition(s1, e) = p

\* C18 (as stated): for every id, state and position P, savePosition(id, P)
\* followed by getSavedPosition(id) returns 0 if P < 5000 and P otherwise.
SaveThenGetZeroBelow ==
    \A e \in PositionEpisodes, p \in FinePositions :
        getSavedPosition(savePosition(Store, e, p), e)
            = IF p < MinSavePosition THEN 0 ELSE p

\* an id has an entry, and a save below the threshold leaves it readable
SaveThenGetWitness ==
    \E e \in PositionEpisodes :
        /\ savedPositions[e] # Absent
        /\ getSavedPosition(savePosition(Store, e, MinSavePosition - 1), e)
              = MinSavePosition
        /\ \E f \in PositionEpisodes : savedPositions[f] = Absent

\* C19: the terminal 'completed' callback of a transfer is always applied to
\* the download's progress record, however recently the previous progress
\* update was applied: the throttle never drops it.
CompletedAlwaysApplied ==
    [][\A id \in Episodes :
          TransferSucceeds(id) => activeDownloads'[id] = "completed"]_vars

\* a transfer completed less than the interval after a progress update of it
\* was applied, and the record shows 'completed'
CompletedAppliedWitness ==
    \E id \in Episodes :
        /\ task[id] = "adding" /\ activeDownloads[id] = "completed"
        /\ sinceApplied[id] # Never /\ sinceApplied[id] < ProgressUpdateInterval

\* C20: for one download, a non-terminal progress callback is applied only
\* when none was applied before or the last applied one is at least 500 ms
\* back; a callback arriving within 500 ms of the last applied one changes no
\* state.
ProgressUpdatesSpaced ==
    [][\A id \in Episodes :
          (TransferProgress(id) /\ sinceApplied[id] # Never
                                /\ sinceApplied[id] < ProgressUpdateInterval)
              => UNCHANGED <<activeDownloads, sinceApplied, sinceLastUpdate>>]_vars

\* a transfer is running, a progress update of it was applied some time ago
\* but less than the interval back, and its record has since been removed
ProgressUpdatesSpacedWitness ==
    \E id \in Episodes :
        /\ task[id] = "transferring"
        /\ sinceApplied[id] > 0 /\ sinceApplied[id] < ProgressUpdateInterval
        /\ activeDownloads[id] = "none"

\* C21: right after rehydration, whatever the state was when the process
\* stopped, isPlaying, isLoading, isBuffering and isPlayRequested are false and
\* activeDownloads is empty.
RehydrationResetsVolatile ==
    [][Restart
         => /\ ~isPlaying' /\ ~isLoading' /\ ~isBuffering' /\ ~isPlayRequested'
            /\ \A id \in Episodes : activeDownloads'[id] = "none"]_vars

\* a play request is loading and buffering while a transfer has a progress record
RehydrationResetsWitness ==
    /\ isLoading /\ isBuffering /\ isPlayRequested
    /\ \E id \in Episodes : activeDownloads[id] = "downloading"

\* C22: persisting the stores and rehydrating them after a restart gives the
\* same current episode, queue, play history and saved positions, and the same
\* downloads map and downloadQueue, as before the restart.
RestartKeepsPersisted ==
    [][Restart
         => UNCHANGED <<currentEpisode, queue, playHistory, savedPositions,
                        downloads, downloadQueue>>]_vars

\* C23: the periodic auto-save never stores a position under the wrong
\* episode and never saves while playback is not playing: a tick of the
\* interval that writes savedPositions writes under the episode the store's
\* position was reported for (the engine's track, or the rehydrated current
\* episode when the engine has none) and while isPlaying holds, for every
\* interleaving of store updates, ticks, progress events and the effect.
AutoSaveUnderCurrentWhilePlaying ==
    [][(AutoSaveTick /\ savedPositions' # savedPositions)
         => /\ timerEpisode = (IF engineTrack # None THEN engineTrack ELSE currentEpisode)
            /\ isPlaying]_vars

\* C24: when the engine's load/play fails during playEpisode, isLoading and
\* isPlayRequested end up false and the call of playEpisode rejects with the
\* error.
PlayEpisodeFailurePropagates ==
    [][\A e \in Episodes :
          PlayEpisodeFails(e)
              => /\ ~isLoading' /\ ~isPlayRequested'
                 /\ playEpisodeOutcome(TRUE) = "rejected"]_vars

\* C25: when a transfer fails or is aborted, startDownload rejects with the
\* error, the episode's progress record is removed from activeDownloads, and
\* downloads gains no entry for the episode.
FailedTransferLeavesNoEntry ==
    [][\A id \in Episodes :
          TransferFails(id)
              => /\ startDownloadOutcome(TRUE) = "rejected"
                 /\ activeDownloads'[id] = "none"
                 /\ downloads'[id] = downloads[id]]_vars

\* a transfer with a progress update applied and a partial file on disk, of an
\* episode that is not downloaded
FailedTransferWitness ==
    \E id \in Episodes :
        /\ task[id] = "transferring" /\ activeDownloads[id] = "downloading"
        /\ sinceApplied[id] # Never /\ id \in files /\ downloads[id] = NoPath

\* C26: when deleteAllDownloads completes, downloads, activeDownloads and
\* downloadQueue are empty and no transfer is in flight, also when the pump
\* was running with further ids queued when deleteAllDownloads was called.
DeleteAllLeavesNothing ==
    [][DeleteAllFinish
         => /\ \A id \in Episodes :
                 /\ downloads'[id] = NoPath
                 /\ activeDownloads'[id] = "none"
                 /\ task'[id] \notin {"preparing", "transferring"}
            /\ downloadQueue' = <<>>
            /\ serviceActive' = {}]_vars

\* C27: on a TRACK_ENDED event, if auto-play-next is enabled and the queue is
\* not empty, the queue head becomes the current episode and the engine is
\* told to play it; otherwise the current episode, the queue and the history
\* stay as they were and no playback is started.  (The offset the engine is
\* given is not part of the state.)
TrackEndedFollowsSetting ==
    [][TrackEndedEvent
         => IF autoPlayNext /\ queue # <<>>
            THEN /\ currentEpisode' = Head(queue)
                 /\ engineTrack' = Head(queue)
                 /\ audioState' = "LOADING"
            ELSE /\ UNCHANGED <<currentEpisode, queue, playHistory>>
                 /\ audioState' # "LOADING"]_vars

\* C28: addToDownloadQueue(id) changes nothing when id is in downloads or in
\* downloadQueue and otherwise appends id at the tail; downloadQueue never
\* holds an id twice; getNextInQueue returns the head and removes nothing.
DownloadQueueAppendsOnce ==
    /\ NoDuplicates(downloadQueue)
    /\ \A id \in Episodes :
          LET d1 == addToDownloadQueue(DownloadStore, id)
          IN IF downloads[id] # NoPath \/ Count(downloadQueue, id) > 0
             THEN d1 = DownloadStore
             ELSE /\ Len(d1.downloadQueue) = Len(downloadQueue) + 1
                  /\ d1.downloadQueue[Len(d1.downloadQueue)] = id
                  /\ sliceTo(d1.downloadQueue, Len(downloadQueue)) = downloadQueue
                  /\ d1.downloads = downloads /\ d1.activeDownloads = activeDownloads
    /\ downloadQueue # <<>> => getNextInQueue(DownloadStore) = downloadQueue[1]
    /\ downloadQueue = <<>> => getNextInQueue(DownloadStore) = None

\* one id is downloaded, another is queued, a third is neither
DownloadQueueWitness ==
    \E a, b, c \in Episodes :
        /\ downloads[a] # NoPath
        /\ b \in SeqRange(downloadQueue) /\ downloads[b] = NoPath
        /\ c \notin SeqRange(downloadQueue) /\ downloads[c] = NoPath
\* C29: reorderQueue(from, to) with both indices in bounds moves exactly the
\* item at index from to index to and keeps the relative order of the others;
\* with equal indices, or with either index out of bounds, the queue is left
\* unchanged.
RemoveAt(q, k) == SubSeq(q, 1, k - 1) \o SubSeq(q, k + 1, Len(q))

ReorderInBounds(fromIndex, toIndex) ==
    fromIndex < Len(queue) /\ toIndex < Len(queue)

ReorderMovesOrKeeps ==
    [][\A fromIndex, toIndex \in ReorderIndices :
          ReorderQueue(fromIndex, toIndex) =>
              IF ReorderInBounds(fromIndex, toIndex) /\ fromIndex # toIndex
              THEN /\ Len(queue') = Len(queue)
                   /\ queue'[toIndex + 1] = queue[fromIndex + 1]
                   /\ RemoveAt(queue', toIndex + 1) = RemoveAt(queue, fromIndex + 1)
              ELSE queue' = queue]_vars

\* C30: playNext with an empty queue returns null, and playPrevious with an
\* empty history returns null; either call leaves the current episode, the
\* queue, the history, the position and the saved positions as they were.
EmptyNavigationIsNoOp ==
    /\ queue = <<>> =>
           /\ playNextResult(Store) = None
           /\ playNext(Store) = Store
    /\ playHistory = <<>> =>
           /\ playPreviousResult(Store) = None
           /\ playPrevious(Store) = Store

\* an episode is current with a position worth saving, and there is nothing
\* to go forward or back to
EmptyNavigationWitness ==
    /\ queue = <<>>
    /\ playHistory = <<>>
    /\ currentEpisode # None
    /\ position >= MinSavePosition
    /\ savedPositions[currentEpisode] # position

RemoteNextStore ==
    ApplyHookListeners(hookListeners, handleRemoteNext(Store), "REMOTE_NEXT")

RemoteNextPlayed ==
    IF HookListenersPlay(hookListeners, handleRemoteNext(Store), "REMOTE_NEXT")
    THEN RemoteNextStore.currentEpisode ELSE None

LocalNextStore == skipToNextStore(Store, position)

LocalNextPlayed ==
    IF playNextResult(Store) \in AllEpisodes THEN LocalNextStore.currentEpisode ELSE None

\* C32: from one and the same player state, a REMOTE_NEXT event and the
\* skipToNext command end in the same current episode, queue and history, and
\* start engine playback of the same episode at the same offset (the saved
\* position of that episode).
RemoteNextAsSkipToNext ==
    (HookMounted /\ hookListeners > 0 /\ hasTrack) =>
        /\ RemoteNextStore.currentEpisode = LocalNextStore.currentEpisode
        /\ RemoteNextStore.queue = LocalNextStore.queue
        /\ RemoteNextStore.playHistory = LocalNextStore.playHistory
        /\ RemoteNextPlayed = LocalNextPlayed
        /\ LocalNextPlayed # None =>
               getSavedPosition(RemoteNextStore, RemoteNextPlayed)
                   = getSavedPosition(LocalNextStore, LocalNextPlayed)

\* C33: a feed refresh that fails for network reasons (the feed list cannot be
\* fetched, or no feed of it can) changes neither shows nor episodes when
\* cached catalog data exists, and leaves error null with the offline
\* indicator set; with no cached data it ends with a non-null error.  However
\* refreshFeeds ends, isLoading and isRefreshing are false afterwards.
RefreshFailureKeepsCatalog ==
    [][\A parsed \in SUBSET Feeds :
          RefreshParse(parsed) =>
              /\ ~feed'.isLoading /\ ~feed'.isRefreshing
              /\ refresh'.networkFailed =>
                     IF refresh.hasCachedData
                     THEN /\ feed'.shows = feed.shows
                          /\ feed'.episodes = feed.episodes
                          /\ feed'.error = NoError
                          /\ feed'.isOffline
                     ELSE feed'.error # NoError]_vars

\* What the claim requires of a load of episode E issued while the stores are
\* s and d: E's local path exactly when downloads holds E, else E's remote
\* URL; offset 0 when startFromBeginning, else getSavedPosition(E).
LoadAsResolved(load, s, d, startFromBeginning) ==
    /\ load.uri = IF isDownloaded(d, load.episode)
                  THEN FileUri(d.downloads[load.episode]) ELSE AudioUrlOf(load.episode)
    /\ load.startTimeMs = IF startFromBeginning THEN 0
                          ELSE getSavedPosition(s, load.episode)

\* C34 (as stated): every load a handler issues for an episode E uses E's local
\* path if and only if downloads holds E when the load is issued, else E's
\* remote URL, and starts at 0 when startFromBeginning is true, otherwise at
\* getSavedPosition(E) as the position ledger stands when the load is issued.
LoadsResolvedAtIssue ==
    HookMounted =>
        /\ \A e \in PositionEpisodes, startFromBeginning \in BOOLEAN :
               LoadAsResolved(playEpisodeLoad(Store, DownloadStore, e, startFromBeginning),
                              playEpisodeStore(Store, e), DownloadStore, startFromBeginning)
        /\ \A handler \in Handlers, p \in Positions :
               handlerLoads(handler, handlerStart(handler), p) =>
                   LoadAsResolved(handlerLoad(handler, handlerStart(handler), DownloadStore, p),
                                  handlerStore(handler, handlerStart(handler), p),
                                  DownloadStore, FALSE)

\* C34 (amended): the same, with playEpisode's offset read from the ledger as
\* it stands when playEpisode is called, before its setCurrentEpisode saves the
\* position of the outgoing episode.
LoadsResolvedAsRead ==
    HookMounted =>
        /\ \A e \in PositionEpisodes, startFromBeginning \in BOOLEAN :
               LoadAsResolved(playEpisodeLoad(Store, DownloadStore, e, startFromBeginning),
                              Store, DownloadStore, startFromBeginning)
        /\ \A handler \in Handlers, p \in Positions :
               handlerLoads(handler, handlerStart(handler), p) =>
                   LoadAsResolved(handlerLoad(handler, handlerStart(handler), DownloadStore, p),
                                  handlerStore(handler, handlerStart(handler), p),
                                  DownloadStore, FALSE)

\* a downloaded episode with a saved position heads the queue while another
\* episode plays
LoadsResolvedWitness ==
    /\ HookMounted /\ hasTrack /\ hookListeners > 0
    /\ currentEpisode # None /\ position >= MinSavePosition
    /\ queue # <<>> /\ Head(queue) \in PositionEpisodes
    /\ isDownloaded(DownloadStore, Head(queue))
    /\ getSavedPosition(Store, Head(queue)) > 0

\* C35: in every reachable state the id of the current episode does not occur
\* in the play history, also after playEpisode was called for the episode that
\* is already current.
CurrentNotInHistory ==
    currentEpisode = None \/ currentEpisode \notin SeqRange(playHistory)

\* C36: togglePlayPause never changes the current episode, the queue or the
\* play history, whichever branch it takes (pause, resume of a loaded track,
\* reload when no track is loaded); with no current episode it changes nothing
\* at all.
TogglePlayPauseKeepsLedger ==
    [][\A p \in FinePositions :
          TogglePlayPause(p) =>
              /\ UNCHANGED <<currentEpisode, queue, playHistory>>
              /\ currentEpisode = None => UNCHANGED vars]_vars

\* C37: isPlayRequested is transient: a command sets it, the engine's report
\* of PLAYING clears it, and it is never true while the engine rests in PAUSED,
\* STOPPED, ERROR or IDLE (commands are single steps here, so none is
\* outstanding in a state).
PlayRequestedIsTransient ==
    audioState \in {"PAUSED", "STOPPED", "ERROR", "IDLE"} => ~isPlayRequested

\* C38: in every reachable state no id of downloadQueue has a progress record
\* in activeDownloads or an entry in downloads: a pending id is neither being
\* transferred nor already downloaded.
QueuedNeitherActiveNorDone ==
    \A id \in SeqRange(downloadQueue) :
        /\ activeDownloads[id] = "none"
        /\ ~isDownloaded(DownloadStore, id)

\* The id is in downloadQueue, in activeDownloads or in downloads
Held(id) ==
    \/ id \in SeqRange(downloadQueue)
    \/ activeDownloads[id] # "none"
    \/ isDownloaded(DownloadStore, id)

\* The step is a failed transfer, a cancellation or a deletion of the id, or the
\* id has no episode
Excused(id) ==
    \/ getEpisodeById(id) = None
    \/ TransferFails(id)
    \/ CancelDownload(id)
    \/ CancelSettles(id)
    \/ DeleteDownload(id)
    \/ DeleteAllBegin
    \/ \E other \in Episodes : DeleteAllCancel(other)
    \/ DeleteAllDirectory
    \/ DeleteAllFinish

\* C39: a request accepted by queueDownload (its id waits in downloadQueue or
\* the pump awaits its transfer) is never dropped: no step, a restart with
\* rehydration included, takes the id out of downloadQueue, activeDownloads and
\* downloads all at once, unless the transfer failed or the id was cancelled,
\* deleted or has no episode.
AcceptedRequestKept ==
    [][\A id \in Episodes :
          ((id \in SeqRange(downloadQueue) \/ id \in pumpAwaiting) /\ Held(id) /\ ~Held(id)')
              => Excused(id)]_vars
====
